---- MODULE Spec2Model ----
(***************************************************************************)
(* Lead-generation pipeline of warroom: discovery (_run_search), the       *)
(* enrichment orchestrator (enrich_job / enrich_lead), the on-demand       *)
(* website audit, and rescore_all, over one shared store of SearchJob and  *)
(* Lead rows.  Every await of the Python code is a step boundary; the code *)
(* between two awaits is one atomic step (single asyncio event loop).      *)
(***************************************************************************)
EXTENDS Integers, Sequences, FiniteSets, TLC

(* ------------------------------ bounds --------------------------------- *)
MaxJobs == 2          \* search jobs created by create_search
MaxPlaces == 2        \* place ids the provider knows in the full pipeline
MaxResults == 1       \* longest candidate list of a search in the full pipeline
DiscPlaces == 2       \* place ids the provider returns in SpecDiscovery
PoolLeads == 4        \* pending Leads of the job SpecEnrich enriches
LeadPool == 1         \* Leads of the job SpecLead follows
MaxWanted == 4        \* largest max_results given to search_places
MaxPage == 2          \* most places in one page of the provider
MaxLinks == 5         \* most matching links on a homepage crawl_website reads

JobIds == 1..MaxJobs
Places == 1..MaxPlaces
LeadIds == 1..(MaxJobs * MaxResults)
PoolIds == 1..PoolLeads
LeadPoolIds == 1..LeadPool

(* --------------------------- program constants ------------------------- *)
SemaphoreSlots == 3
W_no_website == 25
W_bad_website_score == 20
W_mediocre_website == 10
W_has_email == 10
W_has_phone == 5
W_high_google_rating == 5
W_many_reviews == 5
W_has_socials == 5
W_old_platform == 15
UPGRADE_PLATFORMS == {"wix", "weebly", "godaddy", "squarespace"}

NoScore == -1         \* website_audit_score IS NULL
NoDate == "none"      \* website_audit_date IS NULL
Fresh == "fresh"      \* a timestamp less than timedelta(days=30) before now
Stale == "stale"      \* a timestamp at least 30 days before now
NoUrl == ""           \* website IS NULL
NoSess == [open |-> FALSE]
NoRescore == [calls |-> 0, updated |-> 0, changed |-> FALSE]

(* ------------------------- provider candidates ------------------------- *)
\* The PlaceResult the provider returns for place id p: odd places have a
\* website, even ones none; the other Google signals vary with p as well.
PlaceResult(p) ==
    [place_id |-> p,
     website |-> IF p % 2 = 1 THEN "https://site" ELSE "",
     phone |-> IF p % 3 = 0 THEN "" ELSE "(555) 010-0000",
     rating |-> IF p % 2 = 1 THEN 42 ELSE 0,          \* tenths; 0.0 = absent
     review_count |-> IF p % 2 = 1 THEN 80 ELSE 10]

\* The candidate lists search_places may return over the place ids 1..n, up
\* to length m: the provider lists a place once, in any order.
ListsOver(n, m) ==
    {ps \in UNION {[1..k -> 1..n] : k \in 0..m} :
        \A a \in DOMAIN ps : \A b \in DOMAIN ps : a # b => ps[a] # ps[b]}
PlaceLists == ListsOver(MaxPlaces, MaxResults)
DiscPlaceLists == ListsOver(DiscPlaces, DiscPlaces)

(* ------------------------------ score_lead ----------------------------- *)
\* str.lower() on the platform names that occur.
Lower(s) ==
    CASE s = "Wix" -> "wix"
      [] s = "Info" -> "info"
      [] s = "Site.com" -> "site.com"
      [] s = "Sentry.io" -> "sentry.io"
      [] OTHER -> s

SocialCount(lead) ==
    Cardinality(lead.socials \cap {"facebook", "instagram", "linkedin", "twitter"})

\* Tiers with the hot threshold at 55.
TierOfEarlyHot(score) ==
    IF score >= 55 THEN "hot"
    ELSE IF score >= 35 THEN "warm"
    ELSE IF score >= 15 THEN "cold"
    ELSE "unscored"

\* A score that takes points off for a good website.
ScoreValuePenalised(lead) ==
      (IF ~lead.has_website \/ lead.website = NoUrl THEN W_no_website
       ELSE IF lead.website_audit_score # NoScore
            THEN (IF lead.website_audit_score < 60 THEN W_bad_website_score
                  ELSE IF lead.website_audit_score < 75 THEN W_mediocre_website
                  ELSE 0 - W_mediocre_website)
            ELSE 0)
    + (IF lead.emails # {} THEN W_has_email ELSE 0)
    + (IF lead.phone # "" THEN W_has_phone ELSE 0)
    + (IF lead.google_rating # 0 /\ lead.google_rating >= 40
       THEN W_high_google_rating ELSE 0)
    + (IF lead.google_reviews_count # 0 /\ lead.google_reviews_count >= 50
       THEN W_many_reviews ELSE 0)
    + (IF SocialCount(lead) >= 2 THEN W_has_socials ELSE 0)
    + (IF lead.website_platform # "" /\ Lower(lead.website_platform) \in UPGRADE_PLATFORMS
       THEN W_old_platform ELSE 0)

\* The sum score_lead accumulates over SCORING_RULES.
ScoreValue(lead) ==
      (IF ~lead.has_website \/ lead.website = NoUrl THEN W_no_website
       ELSE IF lead.website_audit_score # NoScore
            THEN (IF lead.website_audit_score < 60 THEN W_bad_website_score
                  ELSE IF lead.website_audit_score < 75 THEN W_mediocre_website
                  ELSE 0)
            ELSE 0)
    + (IF lead.emails # {} THEN W_has_email ELSE 0)
    + (IF lead.phone # "" THEN W_has_phone ELSE 0)
    + (IF lead.google_rating # 0 /\ lead.google_rating >= 40
       THEN W_high_google_rating ELSE 0)
    + (IF lead.google_reviews_count # 0 /\ lead.google_reviews_count >= 50
       THEN W_many_reviews ELSE 0)
    + (IF SocialCount(lead) >= 2 THEN W_has_socials ELSE 0)
    + (IF lead.website_platform # "" /\ Lower(lead.website_platform) \in UPGRADE_PLATFORMS
       THEN W_old_platform ELSE 0)

TierOf(score) ==
    IF score >= 60 THEN "hot"
    ELSE IF score >= 35 THEN "warm"
    ELSE IF score >= 15 THEN "cold"
    ELSE "unscored"

score_lead(lead) == <<ScoreValue(lead), TierOf(ScoreValue(lead))>>

\* score, tier = score_lead(lead); lead.lead_score = score; lead.lead_tier = tier
WithScore(lead) ==
    [lead EXCEPT !.lead_score = score_lead(lead)[1],
                 !.lead_tier = score_lead(lead)[2]]

(* ------------------------------- Lead rows ----------------------------- *)
\* Lead(...) as _run_search builds it; the columns it does not set take the
\* column defaults of the model class.
NewLead(id, job_id, place) ==
    [id |-> id,
     search_job_id |-> job_id,
     google_place_id |-> place.place_id,
     website |-> place.website,
     phone |-> place.phone,
     google_rating |-> place.rating,
     google_reviews_count |-> place.review_count,
     has_website |-> (place.website # ""),
     enrichment_status |-> "pending",
     audit_status |-> "pending",
     website_status |-> 0,
     website_platform |-> "",
     emails |-> {},
     website_phones |-> {},
     socials |-> {},
     audit_lite_flags |-> {},
     website_audit_score |-> NoScore,
     website_audit_date |-> NoDate,
     lead_score |-> 0,
     lead_tier |-> "unscored"]

LeadColumns ==
    {"id", "search_job_id", "google_place_id", "website", "phone",
     "google_rating", "google_reviews_count", "has_website",
     "enrichment_status", "audit_status", "website_status",
     "website_platform", "emails", "website_phones", "socials",
     "audit_lite_flags", "website_audit_score", "website_audit_date",
     "lead_score", "lead_tier"}

\* The UPDATE a commit flushes for one ORM object: only the columns whose
\* in-memory value differs from the value the session last loaded or wrote
\* are sent, every other column keeps what the row holds now.
FlushUpdate(row, loaded, obj) ==
    [c \in LeadColumns |-> IF obj[c] # loaded[c] THEN obj[c] ELSE row[c]]

\* The leads table without the unique index on google_place_id.
UniqueViolationOff(place, rows) == FALSE

\* The unique index on leads.google_place_id: inserting `place` is rejected
\* when a committed row already carries it.
UniqueViolation(place, rows) ==
    \E i \in DOMAIN rows : rows[i].google_place_id = place

\* A lookup by place id that never finds a Lead.
ExistingLeadNever(place, rows) == FALSE

\* select(Lead).where(Lead.google_place_id == place.place_id) has a result.
ExistingLead(place, rows) ==
    \E i \in DOMAIN rows : rows[i].google_place_id = place

NewJob == [status |-> "none", total_found |-> 0, enriched_count |-> 0,
           error_message |-> ""]

VARIABLES
    jobs,        \* search_jobs table: JobIds -> row (status "none": not created)
    leads,       \* leads table (committed rows): id -> row
    nextLeadId,  \* the id sequence of the leads table
    pc,          \* per job: position of the background work create_search scheduled
    places,      \* per job: the list search_places returned
    idx,         \* per job: number of candidates _run_search has gone through
    added,       \* per job: leads db.add()-ed and not yet flushed
    flushed,     \* per job: leads INSERTed by the open transaction of _run_search
    rows,        \* per job: lead_rows selected by the running enrich_job
    tpc,         \* per job: lead id -> position of its _enrich_one task
    tlead,       \* per job: lead id -> the Lead object of the task's session
    enriched,    \* per job: the nonlocal counter of enrich_job
    runs,        \* per job: enrich_job runs started (0, 1, or 2 for "more")
    auditSess,   \* per lead id: the Lead object of an in-flight audit request
    rescored,    \* history: consecutive rescore calls, and what the last one did
    crawlCall,   \* one call of crawl_website: position, fetches so far, result
    searchCall,  \* one call of search_places: position, pages so far, results
    scoreCall,   \* one call of score_lead: the Lead given and the pair returned
    auditCall    \* one call of audit_website: position, page fetched, result

pipeVars == <<jobs, leads, nextLeadId, pc, places, idx, added, flushed, rows,
              tpc, tlead, enriched, runs, auditSess, rescored>>
callVars == <<crawlCall, searchCall, scoreCall, auditCall>>
vars == <<pipeVars, callVars>>

\* No call of the single functions is followed.
NoCall == [pc |-> "idle"]
CallsIdle ==
    /\ crawlCall = NoCall
    /\ searchCall = NoCall
    /\ scoreCall = NoCall
    /\ auditCall = NoCall

searchVars == <<places, idx, added, flushed>>
enrichVars == <<rows, tpc, tlead, enriched, runs>>
\* Any request other than a rescore ends a run of consecutive rescore calls.
NotRescore == rescored' = NoRescore

\* The store and the background work before the first request.
InitPipeline ==
    /\ jobs = [j \in JobIds |-> NewJob]
    /\ leads = <<>>
    /\ nextLeadId = 1
    /\ pc = [j \in JobIds |-> "idle"]
    /\ places = [j \in JobIds |-> <<>>]
    /\ idx = [j \in JobIds |-> 0]
    /\ added = [j \in JobIds |-> <<>>]
    /\ flushed = [j \in JobIds |-> <<>>]
    /\ rows = [j \in JobIds |-> <<>>]
    /\ tpc = [j \in JobIds |-> <<>>]
    /\ tlead = [j \in JobIds |-> <<>>]
    /\ enriched = [j \in JobIds |-> 0]
    /\ runs = [j \in JobIds |-> 0]
    /\ auditSess = [l \in LeadIds |-> NoSess]
    /\ rescored = NoRescore

Init == InitPipeline /\ CallsIdle

(* ------------------------------ helpers -------------------------------- *)
SetToSortedSeq(S) ==
    [i \in 1..Cardinality(S) |->
        CHOOSE x \in S : Cardinality({y \in S : y < x}) = i - 1]

Range(f) == {f[i] : i \in DOMAIN f}

Created(j) == jobs[j].status # "none"

(* --------------------------- create_search ----------------------------- *)
\* POST /search: insert the SearchJob (status running), commit, and schedule
\* _run_search then _run_enrichment as background tasks of the request.
create_search(j) ==
    /\ pc[j] = "idle"
    /\ \A k \in JobIds : k < j => Created(k)
    /\ jobs' = [jobs EXCEPT ![j] = [NewJob EXCEPT !.status = "running"]]
    /\ pc' = [pc EXCEPT ![j] = "search"]
    /\ NotRescore
    /\ UNCHANGED callVars
    /\ UNCHANGED <<leads, nextLeadId, searchVars, enrichVars, auditSess>>

(* ----------------------------- _run_search ----------------------------- *)
\* search_places returned the candidate list ps.
SearchPlacesReturns(j, ps) ==
    /\ pc[j] = "search"
    /\ places' = [places EXCEPT ![j] = ps]
    /\ idx' = [idx EXCEPT ![j] = 0]
    /\ pc' = [pc EXCEPT ![j] = "loop"]
    /\ NotRescore
    /\ UNCHANGED callVars
    /\ UNCHANGED <<jobs, leads, nextLeadId, added, flushed, enrichVars, auditSess>>

\* search_places raised (provider timeout, malformed JSON): the except
\* branch marks the job failed and commits; _run_search returns normally,
\* so the next background task (_run_enrichment) runs.
SearchPlacesRaises(j) ==
    /\ pc[j] = "search"
    /\ jobs' = [jobs EXCEPT ![j].status = "failed",
                            ![j].error_message = "exc"]
    /\ pc' = [pc EXCEPT ![j] = "enrich"]
    /\ NotRescore
    /\ UNCHANGED callVars
    /\ UNCHANGED <<leads, nextLeadId, searchVars, enrichVars, auditSess>>

\* The place ids another open discovery transaction has inserted and not
\* yet committed: an INSERT of one of them waits for that transaction.
HeldBy(k) == {flushed[k][i].google_place_id : i \in DOMAIN flushed[k]}

WaitsFor(j, k) ==
    /\ j # k
    /\ pc[j] = "loop"
    /\ added[j] # <<>>
    /\ added[j][1].place_id \in HeldBy(k)

RECURSIVE WaitReach(_, _)
WaitReach(S, n) ==
    IF n = 0 THEN S
    ELSE WaitReach(S \cup {k \in JobIds : \E i \in S : WaitsFor(i, k)}, n - 1)

\* j is part of a cycle of transactions waiting for each other.
Deadlocked(j) == j \in WaitReach({k \in JobIds : WaitsFor(j, k)}, MaxJobs)

Blocked(j) == \E k \in JobIds : WaitsFor(j, k)

\* The autoflush a query of the session triggers succeeds: the pending Lead
\* (if any) is INSERTed under the next id of the sequence.
FlushOk(j) ==
    IF added[j] = <<>> THEN TRUE
    ELSE ~UniqueViolation(added[j][1].place_id, leads) /\ ~Blocked(j)

FlushedAfter(j) ==
    IF added[j] = <<>> THEN flushed[j]
    ELSE (nextLeadId :> NewLead(nextLeadId, j, added[j][1])) @@ flushed[j]

NextIdAfter(j) == IF added[j] = <<>> THEN nextLeadId ELSE nextLeadId + 1

\* One iteration of `for place in places`: the SELECT by place id (which
\* first autoflushes the Lead added by the previous iteration) sees the
\* committed rows and the rows of its own transaction; an existing place is
\* skipped, a new one is db.add()-ed.
SearchIter(j) ==
    /\ pc[j] = "loop"
    /\ idx[j] < Len(places[j])
    /\ FlushOk(j)
    /\ LET place == PlaceResult(places[j][idx[j] + 1])
           mine == FlushedAfter(j)
           existing == ExistingLead(place.place_id, leads)
                       \/ ExistingLead(place.place_id, mine)
       IN /\ flushed' = [flushed EXCEPT ![j] = mine]
          /\ added' = [added EXCEPT ![j] = IF existing THEN <<>> ELSE <<place>>]
    /\ nextLeadId' = NextIdAfter(j)
    /\ idx' = [idx EXCEPT ![j] = @ + 1]
    /\ NotRescore
    /\ UNCHANGED callVars
    /\ UNCHANGED <<jobs, leads, pc, places, enrichVars, auditSess>>

\* After the loop: SELECT the job (autoflush of the last added Lead), set
\* total_found and status complete, commit the inserted Leads with it.
SearchCommit(j) ==
    /\ pc[j] = "loop"
    /\ idx[j] = Len(places[j])
    /\ FlushOk(j)
    /\ leads' = FlushedAfter(j) @@ leads
    /\ nextLeadId' = NextIdAfter(j)
    /\ jobs' = [jobs EXCEPT ![j].total_found = Len(places[j]),
                            ![j].status = "complete"]
    /\ added' = [added EXCEPT ![j] = <<>>]
    /\ flushed' = [flushed EXCEPT ![j] = <<>>]
    /\ places' = [places EXCEPT ![j] = <<>>]
    /\ idx' = [idx EXCEPT ![j] = 0]
    /\ pc' = [pc EXCEPT ![j] = "enrich"]
    /\ NotRescore
    /\ UNCHANGED callVars
    /\ UNCHANGED <<enrichVars, auditSess>>

\* A failed autoflush after which the rows INSERTed so far stay stored.
SearchFlushFailsKeepsRows(j) ==
    /\ pc[j] = "loop"
    /\ added[j] # <<>>
    /\ (UniqueViolation(added[j][1].place_id, leads) \/ Deadlocked(j))
    /\ leads' = flushed[j] @@ leads
    /\ nextLeadId' = nextLeadId + 1
    /\ added' = [added EXCEPT ![j] = <<>>]
    /\ flushed' = [flushed EXCEPT ![j] = <<>>]
    /\ places' = [places EXCEPT ![j] = <<>>]
    /\ idx' = [idx EXCEPT ![j] = 0]
    /\ pc' = [pc EXCEPT ![j] = "escaped"]
    /\ NotRescore
    /\ UNCHANGED callVars
    /\ UNCHANGED <<jobs, enrichVars, auditSess>>

\* The autoflush fails (unique violation, or the store aborts this
\* transaction to break a deadlock): the transaction is rolled back, and the
\* query of the except branch raises on the invalidated session, so the
\* exception leaves _run_search with the job still running.
SearchFlushFails(j) ==
    /\ pc[j] = "loop"
    /\ added[j] # <<>>
    /\ (UniqueViolation(added[j][1].place_id, leads) \/ Deadlocked(j))
    /\ nextLeadId' = nextLeadId + 1
    /\ added' = [added EXCEPT ![j] = <<>>]
    /\ flushed' = [flushed EXCEPT ![j] = <<>>]
    /\ places' = [places EXCEPT ![j] = <<>>]
    /\ idx' = [idx EXCEPT ![j] = 0]
    /\ pc' = [pc EXCEPT ![j] = "escaped"]
    /\ NotRescore
    /\ UNCHANGED callVars
    /\ UNCHANGED <<jobs, leads, enrichVars, auditSess>>

\* A background task that raised: the runner of the request's background
\* tasks lives outside the repository, so both of its possible reactions
\* are kept: it goes on with _run_enrichment, or it drops the remaining tasks.
BackgroundContinue(j) ==
    /\ pc[j] = "escaped"
    /\ pc' = [pc EXCEPT ![j] = "enrich"]
    /\ NotRescore
    /\ UNCHANGED callVars
    /\ UNCHANGED <<jobs, leads, nextLeadId, searchVars, enrichVars, auditSess>>

BackgroundAbort(j) ==
    /\ pc[j] = "escaped"
    /\ pc' = [pc EXCEPT ![j] = "done"]
    /\ NotRescore
    /\ UNCHANGED callVars
    /\ UNCHANGED <<jobs, leads, nextLeadId, searchVars, enrichVars, auditSess>>


(* ------------------------------ enrich_job ----------------------------- *)
\* lead.website_audit_date and datetime.now() - lead.website_audit_date <
\* timedelta(days=30)
Recent(date) == date # NoDate /\ date = Fresh

\* What crawl_website may return: the homepage could not be loaded (error
\* set, every other field at its dataclass default), a site-builder page
\* with contact data, or a bare custom page.
CrawlResults ==
    { [error |-> "Failed to load homepage", status_code |-> 0, platform |-> "",
       emails |-> {}, phones |-> {}, socials |-> {}],
      [error |-> "", status_code |-> 200, platform |-> "wix",
       emails |-> {"info@site"}, phones |-> {"(555) 010-0001"},
       socials |-> {"facebook", "instagram"}],
      [error |-> "", status_code |-> 200, platform |-> "custom",
       emails |-> {}, phones |-> {}, socials |-> {}] }

\* The audit-lite flags enrich_lead derives from a crawl.
AuditFlags(lead, crawl) ==
    (IF crawl.platform # "" /\ crawl.platform # "custom" THEN {"Built on"} ELSE {})
    \cup (IF crawl.emails = {} THEN {"No email found on website"} ELSE {})
    \cup (IF crawl.phones = {} THEN {"No phone found on website"} ELSE {})
    \cup (IF lead.website = "https://site" THEN {} ELSE {"No SSL (HTTP only)"})
    \cup (IF Cardinality(crawl.socials \cap {"facebook", "instagram", "linkedin", "twitter"}) = 0
          THEN {"No social media links"}
          ELSE IF Cardinality(crawl.socials \cap {"facebook", "instagram", "linkedin", "twitter"}) < 2
               THEN {"Minimal social presence"} ELSE {})

\* enrich_lead, copy branch: the enrichment and audit columns of another
\* enriched Lead with the same place id are copied, then the score is set.
CopyFrom(lead, existing_lead) ==
    WithScore([lead EXCEPT
        !.enrichment_status = "enriched",
        !.has_website = existing_lead.has_website,
        !.website_status = existing_lead.website_status,
        !.website_platform = existing_lead.website_platform,
        !.emails = existing_lead.emails,
        !.website_phones = existing_lead.website_phones,
        !.socials = existing_lead.socials,
        !.audit_lite_flags = existing_lead.audit_lite_flags,
        !.website_audit_score = existing_lead.website_audit_score,
        !.website_audit_date = existing_lead.website_audit_date,
        !.audit_status = existing_lead.audit_status])

\* enrich_lead without the crawling mark.
MarkCrawlingSkipped(lead) == lead

\* enrich_lead, before the crawl: lead.enrichment_status = "crawling".
MarkCrawling(lead) == [lead EXCEPT !.enrichment_status = "crawling"]

\* A recent-audit branch that leaves score and tier as they were.
MarkEnrichedRecentUnscored(lead) == [lead EXCEPT !.enrichment_status = "enriched"]

\* enrich_lead, recent-audit branch.
MarkEnrichedRecent(lead) == WithScore([lead EXCEPT !.enrichment_status = "enriched"])

\* A no-website branch that leaves audit_status as it was.
MarkNoWebsiteUnlabelled(lead) ==
    WithScore([lead EXCEPT !.has_website = FALSE,
                           !.enrichment_status = "enriched"])

\* enrich_lead, no-website branch.
MarkNoWebsite(lead) ==
    WithScore([lead EXCEPT !.has_website = FALSE,
                           !.enrichment_status = "enriched",
                           !.audit_status = "no_website"])

\* enrich_lead after crawl_website returned `crawl`.
ApplyCrawl(lead, crawl, date) ==
    [WithScore([lead EXCEPT
        !.has_website = TRUE,
        !.website_status = crawl.status_code,
        !.website_platform = crawl.platform,
        !.emails = crawl.emails,
        !.website_phones = IF crawl.phones # {} THEN crawl.phones ELSE @,
        !.socials = crawl.socials,
        !.enrichment_status = IF crawl.error # "" THEN "failed" ELSE "enriched",
        !.audit_lite_flags = AuditFlags(lead, crawl)])
     EXCEPT !.website_audit_date = date]

\* A selection that takes only the pending Leads with a website.
PendingRowsWithWebsite(j) ==
    SetToSortedSeq({l \in DOMAIN leads :
        /\ leads[l].search_job_id = j
        /\ leads[l].enrichment_status = "pending"
        /\ leads[l].has_website})

\* The rows enrich_job selects: the job's pending Leads, ordered by id.
PendingRows(j) ==
    SetToSortedSeq({l \in DOMAIN leads :
        leads[l].search_job_id = j /\ leads[l].enrichment_status = "pending"})

\* Start of enrich_job (from _run_enrichment): select the pending rows, set
\* the job to running, commit, and create one _enrich_one task per row.
EnrichJobStart(j) ==
    /\ pc[j] = "enrich"
    /\ rows' = [rows EXCEPT ![j] = PendingRows(j)]
    /\ jobs' = [jobs EXCEPT ![j].status = "running"]
    /\ tpc' = [tpc EXCEPT ![j] = [l \in Range(PendingRows(j)) |-> "wait"]]
    /\ tlead' = [tlead EXCEPT ![j] = <<>>]
    /\ enriched' = [enriched EXCEPT ![j] = 0]
    /\ runs' = [runs EXCEPT ![j] = IF @ < 2 THEN @ + 1 ELSE @]
    /\ pc' = [pc EXCEPT ![j] = "gather"]
    /\ NotRescore
    /\ UNCHANGED callVars
    /\ UNCHANGED <<leads, nextLeadId, searchVars, auditSess>>

\* A task whose enrich_lead raised keeps its slot.
InsideStatesRaisedHeld == {"load", "check", "crawling", "raised"}

\* The positions of a task between `async with semaphore` and its exit.
InsideStates == {"load", "check", "crawling"}
DoneStates == {"done", "raised"}

\* The tasks of job j's run that hold a slot of its semaphore.
Inside(j) == {l \in DOMAIN tpc[j] : tpc[j][l] \in InsideStates}

\* A semaphore that never keeps a task waiting.
SlotFreeAlways(j) == TRUE

\* asyncio.Semaphore(3): a slot is free.
SlotFree(j) == Cardinality(Inside(j)) < SemaphoreSlots

\* `async with semaphore`: a task gets a slot when one is free; waiters are
\* served in the order the tasks were created (the order of lead_rows).
TaskAcquire(j, l) ==
    /\ pc[j] = "gather"
    /\ l \in DOMAIN tpc[j]
    /\ tpc[j][l] = "wait"
    /\ SlotFree(j)
    /\ \A m \in DOMAIN tpc[j] : m < l => tpc[j][m] # "wait"
    /\ tpc' = [tpc EXCEPT ![j][l] = "load"]
    /\ NotRescore
    /\ UNCHANGED callVars
    /\ UNCHANGED <<jobs, leads, nextLeadId, pc, searchVars, rows, tlead,
                   enriched, runs, auditSess>>

\* The task leaves enrich_lead (return or caught exception), closes its
\* session, counts itself and releases its slot.
\* A counter that leaves out the tasks whose enrich_lead raised.
CountAfterSuccess(outcome, n) == IF outcome = "raised" THEN n ELSE n + 1

\* `enriched += 1` after the try/except of _enrich_one.
CountAfter(outcome, n) == n + 1

TaskExit(j, l, outcome) ==
    /\ tpc' = [tpc EXCEPT ![j][l] = outcome]
    /\ enriched' = [enriched EXCEPT ![j] = CountAfter(outcome, @)]
    /\ tlead' = [tlead EXCEPT ![j] = [m \in DOMAIN @ \ {l} |-> @[m]]]

\* enrich_lead: SELECT the Lead into the task's own session; an enriched
\* Lead is skipped.
TaskLoad(j, l) ==
    /\ pc[j] = "gather"
    /\ l \in DOMAIN tpc[j]
    /\ tpc[j][l] = "load"
    /\ IF (IF l \in DOMAIN leads THEN leads[l].enrichment_status = "enriched" ELSE TRUE)
       THEN TaskExit(j, l, "done")
       ELSE /\ tpc' = [tpc EXCEPT ![j][l] = "check"]
            /\ tlead' = [tlead EXCEPT ![j] = (l :> leads[l]) @@ @]
            /\ UNCHANGED enriched
    /\ NotRescore
    /\ UNCHANGED callVars
    /\ UNCHANGED <<jobs, leads, nextLeadId, pc, searchVars, rows, runs, auditSess>>

\* Other committed Leads that are enriched and carry the place id of lead.
EnrichedTwins(lead) ==
    {m \in DOMAIN leads : /\ leads[m].google_place_id = lead.google_place_id
                          /\ leads[m].enrichment_status = "enriched"
                          /\ m # lead.id}

\* enrich_lead from the place-id lookup to its next commit: copy from an
\* enriched twin, or reuse a recent audit, or mark the Lead crawling.
TaskCheck(j, l) ==
    /\ pc[j] = "gather"
    /\ l \in DOMAIN tpc[j]
    /\ tpc[j][l] = "check"
    /\ LET lead == tlead[j][l]
       IN IF EnrichedTwins(lead) # {}
          THEN /\ \E m \in EnrichedTwins(lead) :
                     leads' = [leads EXCEPT ![l] =
                                  FlushUpdate(@, lead, CopyFrom(lead, leads[m]))]
               /\ TaskExit(j, l, "done")
          ELSE IF Recent(lead.website_audit_date)
          THEN /\ leads' = [leads EXCEPT ![l] =
                               FlushUpdate(@, lead, MarkEnrichedRecent(lead))]
               /\ TaskExit(j, l, "done")
          ELSE /\ leads' = [leads EXCEPT ![l] =
                               FlushUpdate(@, lead, MarkCrawling(lead))]
               /\ tlead' = [tlead EXCEPT ![j][l] = MarkCrawling(lead)]
               /\ tpc' = [tpc EXCEPT ![j][l] = "crawling"]
               /\ UNCHANGED enriched
    /\ NotRescore
    /\ UNCHANGED callVars
    /\ UNCHANGED <<jobs, nextLeadId, pc, searchVars, rows, runs, auditSess>>

\* enrich_lead for a Lead without website: enriched / no_website, committed.
TaskNoWebsite(j, l) ==
    /\ pc[j] = "gather"
    /\ l \in DOMAIN tpc[j]
    /\ tpc[j][l] = "crawling"
    /\ tlead[j][l].website = NoUrl
    /\ leads' = [leads EXCEPT ![l] =
                    FlushUpdate(@, tlead[j][l], MarkNoWebsite(tlead[j][l]))]
    /\ TaskExit(j, l, "done")
    /\ NotRescore
    /\ UNCHANGED callVars
    /\ UNCHANGED <<jobs, nextLeadId, pc, searchVars, rows, runs, auditSess>>

\* enrich_lead for a Lead with website: crawl_website returned `crawl`; the
\* crawl columns, the status, the flags, the score and the date are committed.
TaskCrawled(j, l, crawl) ==
    /\ pc[j] = "gather"
    /\ l \in DOMAIN tpc[j]
    /\ tpc[j][l] = "crawling"
    /\ tlead[j][l].website # NoUrl
    /\ leads' = [leads EXCEPT ![l] =
                    FlushUpdate(@, tlead[j][l], ApplyCrawl(tlead[j][l], crawl, Fresh))]
    /\ TaskExit(j, l, "done")
    /\ NotRescore
    /\ UNCHANGED callVars
    /\ UNCHANGED <<jobs, nextLeadId, pc, searchVars, rows, runs, auditSess>>

\* A statement of the task's session raises (store error): nothing more is
\* written; _enrich_one catches and logs the exception.
TaskRaises(j, l) ==
    /\ pc[j] = "gather"
    /\ l \in DOMAIN tpc[j]
    /\ tpc[j][l] \in {"check", "crawling"}
    /\ TaskExit(j, l, "raised")
    /\ NotRescore
    /\ UNCHANGED callVars
    /\ UNCHANGED <<jobs, leads, nextLeadId, pc, searchVars, rows, runs, auditSess>>

\* After gather: status complete and enriched_count = the counter, committed.
EnrichJobFinish(j) ==
    /\ pc[j] = "gather"
    /\ \A l \in DOMAIN tpc[j] : tpc[j][l] \in DoneStates
    /\ jobs' = [jobs EXCEPT ![j].status = "complete",
                            ![j].enriched_count = enriched[j]]
    /\ rows' = [rows EXCEPT ![j] = <<>>]
    /\ tpc' = [tpc EXCEPT ![j] = <<>>]
    /\ enriched' = [enriched EXCEPT ![j] = 0]
    /\ pc' = [pc EXCEPT ![j] = "done"]
    /\ NotRescore
    /\ UNCHANGED callVars
    /\ UNCHANGED <<leads, nextLeadId, searchVars, tlead, runs, auditSess>>

\* run_enrichment(job_id) invoked again for a job whose background work is over.
RunEnrichmentAgain(j) ==
    /\ pc[j] = "done"
    /\ pc' = [pc EXCEPT ![j] = "enrich"]
    /\ NotRescore
    /\ UNCHANGED callVars
    /\ UNCHANGED <<jobs, leads, nextLeadId, searchVars, enrichVars, auditSess>>


(* ------------------------- trigger_website_audit ------------------------ *)
\* Scores audit_website may return: 0 (also every failed audit) and a
\* mediocre page.
AuditScores == {0, 65}

\* An audit that also queues the Lead for enrichment again.
ApplyAuditRequeue(lead, score, date) ==
    [lead EXCEPT !.website_audit_score = score,
                 !.website_audit_date = date,
                 !.audit_status = "complete",
                 !.enrichment_status = "pending"]

\* The assignments trigger_website_audit makes once audit_website returned.
ApplyAudit(lead, score, date) ==
    [lead EXCEPT !.website_audit_score = score,
                 !.website_audit_date = date,
                 !.audit_status = "complete"]

\* POST /leads/{id}/audit up to the call of audit_website: the Lead is loaded
\* into the request's session; 404 without Lead, 400 without website.  Of
\* the loaded object only the columns the request assigns later are kept:
\* the UPDATE of its commit compares no other column.
AuditStart(l) ==
    /\ l \in DOMAIN leads
    /\ ~auditSess[l].open
    /\ leads[l].website # NoUrl
    /\ auditSess' = [auditSess EXCEPT ![l] =
                        [open |-> TRUE,
                         website_audit_score |-> leads[l].website_audit_score,
                         website_audit_date |-> leads[l].website_audit_date,
                         audit_status |-> leads[l].audit_status]]
    /\ NotRescore
    /\ UNCHANGED callVars
    /\ UNCHANGED <<jobs, leads, nextLeadId, pc, searchVars, enrichVars>>

\* The Lead object of the audit request: the columns it loaded.
AuditLoaded(l) ==
    [leads[l] EXCEPT !.website_audit_score = auditSess[l].website_audit_score,
                     !.website_audit_date = auditSess[l].website_audit_date,
                     !.audit_status = auditSess[l].audit_status]

\* audit_website returned `score`: the audit columns are set and committed.
AuditFinish(l, score) ==
    /\ auditSess[l].open
    /\ leads' = [leads EXCEPT ![l] =
                    FlushUpdate(@, AuditLoaded(l), ApplyAudit(AuditLoaded(l), score, Fresh))]
    /\ auditSess' = [auditSess EXCEPT ![l] = NoSess]
    /\ NotRescore
    /\ UNCHANGED callVars
    /\ UNCHANGED <<jobs, nextLeadId, pc, searchVars, enrichVars>>

\* GET /leads/{id}/audit for a stored Lead: 404 when `not
\* lead.website_audit_score` (NULL, and also 0), the stored score otherwise.
get_audit_results(lead) ==
    IF lead.website_audit_score = NoScore \/ lead.website_audit_score = 0
    THEN [status |-> 404, detail |-> "No audit results found"]
    ELSE [status |-> 200, score |-> lead.website_audit_score]

(* --------------------------- rescore_all_leads -------------------------- *)
\* A rescore that assigns the score and leaves the tier.
RescoredScoreOnly(loaded) ==
    [l \in DOMAIN loaded |->
        IF loaded[l].lead_score # score_lead(loaded[l])[1]
           \/ loaded[l].lead_tier # score_lead(loaded[l])[2]
        THEN [loaded[l] EXCEPT !.lead_score = score_lead(loaded[l])[1]]
        ELSE loaded[l]]

\* The loop of rescore_all_leads over the loaded Leads: score and tier are
\* assigned where they differ from score_lead.
Rescored(loaded) ==
    [l \in DOMAIN loaded |->
        IF loaded[l].lead_score # score_lead(loaded[l])[1]
           \/ loaded[l].lead_tier # score_lead(loaded[l])[2]
        THEN WithScore(loaded[l]) ELSE loaded[l]]

\* The `updated` count rescore_all_leads reports.
RescoreUpdated(loaded) ==
    Cardinality({l \in DOMAIN loaded :
        loaded[l].lead_score # score_lead(loaded[l])[1]
        \/ loaded[l].lead_tier # score_lead(loaded[l])[2]})

\* POST /leads/rescore: SELECT every Lead, rescore, commit.  Nothing but the
\* store is awaited between the SELECT and the commit, and the request is
\* taken as one step.
rescore_all_leads ==
    /\ leads' = [l \in DOMAIN leads |->
                    FlushUpdate(leads[l], leads[l], Rescored(leads)[l])]
    /\ rescored' = [calls |-> IF rescored.calls < 2 THEN rescored.calls + 1 ELSE 2,
                    updated |-> RescoreUpdated(leads),
                    changed |-> \E l \in DOMAIN leads :
                                   \/ leads'[l].lead_score # leads[l].lead_score
                                   \/ leads'[l].lead_tier # leads[l].lead_tier]
    /\ UNCHANGED <<jobs, nextLeadId, pc, searchVars, enrichVars, auditSess>>
    /\ UNCHANGED callVars

(* -------------------------------- clock --------------------------------- *)
Aged(date) == IF date = Fresh THEN Stale ELSE date

\* Thirty days pass: every timestamp stored or loaded so far is now outside
\* the freshness window.
WindowElapses ==
    /\ \E l \in DOMAIN leads : leads[l].website_audit_date = Fresh
    /\ leads' = [l \in DOMAIN leads |->
                    [leads[l] EXCEPT !.website_audit_date = Aged(@)]]
    /\ tlead' = [j \in JobIds |-> [l \in DOMAIN tlead[j] |->
                    [tlead[j][l] EXCEPT !.website_audit_date = Aged(@)]]]
    /\ auditSess' = [l \in DOMAIN auditSess |->
                        IF auditSess[l].open
                        THEN [auditSess[l] EXCEPT !.website_audit_date = Aged(@)]
                        ELSE auditSess[l]]
    /\ NotRescore
    /\ UNCHANGED callVars
    /\ UNCHANGED <<jobs, nextLeadId, pc, searchVars, rows, tpc, enriched, runs>>

(* ----------------------------- crawl_website ---------------------------- *)
MaxContactPages == 3

\* Addresses EMAIL_PATTERN finds in page text, as local part and domain.
InfoCaps == [local |-> "Info", domain |-> "Site.com"]
InfoMail == [local |-> "info", domain |-> "site.com"]
OwnerMail == [local |-> "owner", domain |-> "site.com"]
HookMail == [local |-> "hook", domain |-> "Sentry.io"]
LogoMail == [local |-> "logo", domain |-> "2x.png"]
HeroMail == [local |-> "hero.jpg", domain |-> "site.com"]
RawEmails == {InfoCaps, InfoMail, OwnerMail, HookMail, LogoMail, HeroMail}

JUNK_EMAIL_DOMAINS ==
    {"example.com", "sentry.io", "wixpress.com", "googleapis.com",
     "w3.org", "schema.org", "gravatar.com", "wordpress.org"}

\* any(ext in s for ext in [".png", ".jpg", ".gif", ".svg", ".js", ".css"]),
\* for the strings of RawEmails.
HasAssetExt(s) == s \in {"2x.png", "hero.jpg"}

\* email.lower()
LowerEmail(email) == [local |-> Lower(email.local), domain |-> Lower(email.domain)]

\* A cleaner that looks for the asset extension in the local part.
KeptLocalTested(email) ==
    /\ Lower(email.domain) \notin JUNK_EMAIL_DOMAINS
    /\ ~HasAssetExt(email.local)

\* The two tests of the loop of _clean_emails, both on the lower-cased domain.
Kept(email) ==
    /\ Lower(email.domain) \notin JUNK_EMAIL_DOMAINS
    /\ ~HasAssetExt(Lower(email.domain))

\* _clean_emails: the kept addresses, lower-cased, as a set.
clean_emails(raw_emails) == {LowerEmail(email) : email \in {e \in raw_emails : Kept(e)}}

\* Numbers PHONE_PATTERN finds, and the (ddd) ddd-dddd form of their digits.
RawPhones == {"555-010-0001", "(555) 010-0001", "+1 555 010 0002"}

NormalPhone(phone) ==
    IF phone = "+1 555 010 0002" THEN "(555) 010-0002" ELSE "(555) 010-0001"

\* _clean_phones
clean_phones(raw_phones) == {NormalPhone(phone) : phone \in raw_phones}

\* What one GET of _scrape_page may yield: no content (non-200 status or an
\* exception, both caught), a page without contact data, a page with
\* addresses, numbers and a Facebook link, or a page with Facebook and
\* Instagram links.
PageOutcomes == {"failed", "plain", "email", "social"}

\* The extractions of the i-th fetched page (1: the homepage).
EmailsOf(i, outcome) ==
    IF outcome # "email" THEN {}
    ELSE IF i = 1 THEN {InfoCaps, LogoMail} ELSE {InfoMail, OwnerMail}

PhonesOf(i, outcome) ==
    IF outcome # "email" THEN {}
    ELSE IF i = 1 THEN {"555-010-0001"} ELSE {"(555) 010-0001", "+1 555 010 0002"}

\* _extract_socials: platform -> the link on that page (links differ from
\* page to page).
SocialsOf(i, outcome) ==
    IF outcome = "email" THEN [p \in {"facebook"} |-> <<p, i>>]
    ELSE IF outcome = "social" THEN [p \in {"facebook", "instagram"} |-> <<p, i>>]
    ELSE <<>>

\* A merge in which the link of the later page replaces the earlier one.
MergeSocialsLastWins(all_socials, page_socials) ==
    [p \in DOMAIN all_socials \cup DOMAIN page_socials |->
        IF p \in DOMAIN page_socials THEN page_socials[p] ELSE all_socials[p]]

\* `if platform not in all_socials: all_socials[platform] = link`
MergeSocials(all_socials, page_socials) ==
    [p \in DOMAIN all_socials \cup DOMAIN page_socials |->
        IF p \in DOMAIN all_socials THEN all_socials[p] ELSE page_socials[p]]

\* A link search without the limit.
find_contact_pages_unlimited(links) == links

\* _find_contact_pages, for a homepage with `links` distinct same-domain
\* links that match a contact pattern: list(set(found))[:3].
find_contact_pages(links) ==
    IF links > MaxContactPages THEN MaxContactPages ELSE links

\* crawl_website(url): result = CrawlResult(url=url), the client is opened
\* and the GET of the homepage is sent.
crawl_website ==
    /\ crawlCall.pc = "idle"
    /\ crawlCall' = [pc |-> "homepage",
                     fetches |-> <<[page |-> "home", outcome |-> "pending"]>>,
                     links |-> 0,
                     contact_pages |-> 0,
                     all_emails |-> {},
                     all_phones |-> {},
                     all_socials |-> <<>>,
                     result |-> [status_code |-> 0, platform |-> "", emails |-> {},
                                 phones |-> {}, socials |-> <<>>, error |-> ""]]
    /\ UNCHANGED <<pipeVars, searchCall, scoreCall, auditCall>>

\* A crawl that goes on to a contact page after the homepage gave nothing.
HomepageFailedGoesOn ==
    /\ crawlCall.pc = "homepage"
    /\ crawlCall' = [crawlCall EXCEPT
            !.pc = "sleep",
            !.fetches[1].outcome = "failed",
            !.contact_pages = 1]
    /\ UNCHANGED <<pipeVars, searchCall, scoreCall, auditCall>>

\* _scrape_page(url) returned no content: the error is set and the result
\* returned at once.
HomepageFailed ==
    /\ crawlCall.pc = "homepage"
    /\ crawlCall' = [crawlCall EXCEPT
            !.pc = "returned",
            !.fetches[1].outcome = "failed",
            !.result.error = "Failed to load homepage"]
    /\ UNCHANGED <<pipeVars, searchCall, scoreCall, auditCall>>

\* The after-loop position when no contact page is left, the politeness
\* sleep before the next one otherwise.
AfterPage(n) == IF n = 0 THEN "collect" ELSE "sleep"

\* The homepage arrived, with `links` matching links on it: status 200, the
\* platform, its extractions, and the contact pages _find_contact_pages
\* keeps.
HomepageScraped(outcome, links) ==
    /\ crawlCall.pc = "homepage"
    /\ outcome # "failed"
    /\ crawlCall' = [crawlCall EXCEPT
            !.pc = AfterPage(find_contact_pages(links)),
            !.fetches[1].outcome = outcome,
            !.links = links,
            !.contact_pages = find_contact_pages(links),
            !.all_emails = EmailsOf(1, outcome),
            !.all_phones = PhonesOf(1, outcome),
            !.all_socials = SocialsOf(1, outcome),
            !.result.status_code = 200,
            !.result.platform = "custom"]
    /\ UNCHANGED <<pipeVars, searchCall, scoreCall, auditCall>>

\* The homepage arrived and a statement after it raised (urljoin on a
\* malformed href): the outer except stores str(exc).
HomepageRaises(outcome) ==
    /\ crawlCall.pc = "homepage"
    /\ outcome # "failed"
    /\ crawlCall' = [crawlCall EXCEPT
            !.pc = "returned",
            !.fetches[1].outcome = outcome,
            !.result.status_code = 200,
            !.result.platform = "custom",
            !.result.error = "exc"]
    /\ UNCHANGED <<pipeVars, searchCall, scoreCall, auditCall>>

\* asyncio.sleep(1) is over: the GET of the next contact page is sent.
SubpageFetch ==
    /\ crawlCall.pc = "sleep"
    /\ crawlCall' = [crawlCall EXCEPT
            !.pc = "subpage",
            !.fetches = Append(@, [page |-> "contact", outcome |-> "pending"])]
    /\ UNCHANGED <<pipeVars, searchCall, scoreCall, auditCall>>

\* A crawl that gives up when a contact page cannot be fetched.
SubpageScrapedOrAbort(outcome) ==
    /\ crawlCall.pc = "subpage"
    /\ crawlCall' = [crawlCall EXCEPT
            !.pc = IF outcome = "failed" THEN "returned"
                   ELSE AfterPage(crawlCall.contact_pages - 1),
            !.fetches[Len(crawlCall.fetches)].outcome = outcome,
            !.contact_pages = @ - 1,
            !.all_emails = @ \cup EmailsOf(Len(crawlCall.fetches), outcome),
            !.all_phones = @ \cup PhonesOf(Len(crawlCall.fetches), outcome),
            !.all_socials = MergeSocials(@, SocialsOf(Len(crawlCall.fetches), outcome)),
            !.result.error = IF outcome = "failed" THEN "Failed to load page" ELSE @]
    /\ UNCHANGED <<pipeVars, searchCall, scoreCall, auditCall>>

\* _scrape_page of a contact page returned (empty-handed when the fetch
\* failed): its e-mails and phones are added, its socials merged.
SubpageScraped(outcome) ==
    /\ crawlCall.pc = "subpage"
    /\ crawlCall' = [crawlCall EXCEPT
            !.pc = AfterPage(crawlCall.contact_pages - 1),
            !.fetches[Len(crawlCall.fetches)].outcome = outcome,
            !.contact_pages = @ - 1,
            !.all_emails = @ \cup EmailsOf(Len(crawlCall.fetches), outcome),
            !.all_phones = @ \cup PhonesOf(Len(crawlCall.fetches), outcome),
            !.all_socials = MergeSocials(@, SocialsOf(Len(crawlCall.fetches), outcome))]
    /\ UNCHANGED <<pipeVars, searchCall, scoreCall, auditCall>>

\* After the loop: the collected data are cleaned and stored in the result,
\* which is returned.
CrawlReturn ==
    /\ crawlCall.pc = "collect"
    /\ crawlCall' = [crawlCall EXCEPT
            !.pc = "returned",
            !.result.emails = clean_emails(crawlCall.all_emails),
            !.result.phones = clean_phones(crawlCall.all_phones),
            !.result.socials = crawlCall.all_socials]
    /\ UNCHANGED <<pipeVars, searchCall, scoreCall, auditCall>>

\* crawl_website hands the addresses it collected to _clean_emails, which
\* returns the cleaned ones.
CleanEmailsCall ==
    /\ crawlCall.pc = "clean"
    /\ crawlCall' = [crawlCall EXCEPT
            !.pc = "cleaned",
            !.cleaned = clean_emails(crawlCall.raw_emails)]
    /\ UNCHANGED <<pipeVars, searchCall, scoreCall, auditCall>>

(* ----------------------------- search_places ---------------------------- *)
MockLow == 10
MockHigh == 20

\* results[:max_results]
Truncated(results, max_results) ==
    SubSeq(results, 1, IF Len(results) < max_results THEN Len(results) ELSE max_results)

\* The n places of the page-th response, parsed.
PageOf(page, n) == [k \in 1..n |-> [page |-> page, item |-> k]]

\* search_places(query, location, max_results) without GOOGLE_MAPS_API_KEY:
\* _generate_mock_businesses makes min(max_results, randint(10, 20)) places.
SearchMock(max_results, drawn) ==
    /\ searchCall.pc = "idle"
    /\ searchCall' = [pc |-> "returned", max_results |-> max_results,
                      results |-> <<>>, page_token |-> FALSE, requests |-> 0,
                      status |-> 0,
                      returned |-> PageOf(0, IF max_results < drawn
                                             THEN max_results ELSE drawn)]
    /\ UNCHANGED <<pipeVars, crawlCall, scoreCall, auditCall>>

\* search_places with an API key: the client is opened and, when
\* len(results) < max_results, the first page is requested; the list is
\* returned at once otherwise.
search_places(max_results) ==
    /\ searchCall.pc = "idle"
    /\ searchCall' = [pc |-> IF 0 < max_results THEN "request" ELSE "returned",
                      max_results |-> max_results,
                      results |-> <<>>, page_token |-> FALSE,
                      requests |-> IF 0 < max_results THEN 1 ELSE 0,
                      status |-> 0,
                      returned |-> <<>>]
    /\ UNCHANGED <<pipeVars, crawlCall, scoreCall, auditCall>>

\* A loop that asks for one more page when max_results places are there.
NextPageWantedOverrun(results, n, token, max_results) ==
    token /\ n > 0 /\ Len(results) < max_results + 1

\* The loop goes on after a page: a token came, the page was not empty, and
\* fewer than max_results places are accumulated.
NextPageWanted(results, n, token, max_results) ==
    token /\ n > 0 /\ Len(results) < max_results

\* The provider answered 200 with n places and, maybe, a nextPageToken.
PageOk(n, token) ==
    /\ searchCall.pc = "request"
    /\ LET results == searchCall.results \o PageOf(searchCall.requests, n)
       IN IF NextPageWanted(results, n, token, searchCall.max_results)
          THEN searchCall' = [searchCall EXCEPT
                    !.results = results, !.page_token = token, !.status = 200,
                    !.requests = @ + 1]
          ELSE searchCall' = [searchCall EXCEPT
                    !.results = results, !.page_token = token, !.status = 200,
                    !.pc = "returned",
                    !.returned = Truncated(results, searchCall.max_results)]
    /\ UNCHANGED <<pipeVars, crawlCall, scoreCall, auditCall>>

\* A search that raises on a provider error.
PageErrorRaises(status) ==
    /\ searchCall.pc = "request"
    /\ status # 200
    /\ searchCall' = [searchCall EXCEPT !.status = status, !.pc = "raised"]
    /\ UNCHANGED <<pipeVars, crawlCall, scoreCall, auditCall>>

\* The provider answered with another status: break, and return.
PageError(status) ==
    /\ searchCall.pc = "request"
    /\ status # 200
    /\ searchCall' = [searchCall EXCEPT
            !.status = status,
            !.pc = "returned",
            !.returned = Truncated(searchCall.results, searchCall.max_results)]
    /\ UNCHANGED <<pipeVars, crawlCall, scoreCall, auditCall>>

\* client.post raised (no connection, timeout): search_places has no
\* handler, the exception reaches the caller.
PostRaises ==
    /\ searchCall.pc = "request"
    /\ searchCall' = [searchCall EXCEPT !.pc = "raised"]
    /\ UNCHANGED <<pipeVars, crawlCall, scoreCall, auditCall>>

(* ------------------------------ score_lead ------------------------------ *)
\* The Leads score_lead is applied to: every combination of the signals it
\* reads, with values on both sides of each threshold (ratings in tenths).
ScoreInputs ==
    [has_website : BOOLEAN,
     website : {NoUrl, "https://site"},
     website_audit_score : {NoScore, 0, 59, 60, 74, 75, 100},
     emails : {{}, {"info@site"}, {"info@site", "owner@site"}},
     phone : {"", "(555) 010-0000"},
     google_rating : {0, 39, 40, 42},
     google_reviews_count : {0, 49, 50, 80},
     socials : {{}, {"facebook"}, {"facebook", "instagram"}, {"facebook", "tiktok"}},
     website_platform : {"", "custom", "wix", "Wix"}]

\* score_lead(lead) runs and returns.
ScoreLeadCall ==
    /\ scoreCall.pc = "called"
    /\ scoreCall' = [scoreCall EXCEPT !.pc = "returned",
                                      !.result = score_lead(scoreCall.lead)]
    /\ UNCHANGED <<pipeVars, crawlCall, searchCall, auditCall>>

(* ----------------------------- audit_website ---------------------------- *)
\* The pages audit_website may be given: the scheme of the url and what the
\* patterns and the parser find in the content, with lengths on both sides
\* of each limit (meta_description 0: no description).
AuditPages ==
    [https : BOOLEAN,
     email : BOOLEAN,
     phone : BOOLEAN,
     meta_description : {0, 50, 119, 120, 160, 161},
     title : {0, 29, 30, 60, 61},
     viewport : BOOLEAN,
     socials : {0, 1, 2, 4}]

\* WebsiteAudit(url=url): the defaults of the dataclass.
NewAudit ==
    [score |-> 0, grade |-> "F", summary |-> <<>>,
     has_ssl |-> FALSE, has_email |-> FALSE, has_phone |-> FALSE,
     has_meta_description |-> FALSE, has_viewport |-> FALSE, has_socials |-> 0,
     page_title_length |-> 0, meta_description_length |-> 0]

calculate_audit_score(a) ==
    LET score ==
          (IF a.has_ssl THEN 25 ELSE 0)
        + (IF a.has_email THEN 20 ELSE 0)
        + (IF a.has_phone THEN 15 ELSE 0)
        + (IF a.has_meta_description
           THEN 10 + (IF 120 <= a.meta_description_length
                         /\ a.meta_description_length <= 160 THEN 5 ELSE 0)
           ELSE 0)
        + (IF 30 <= a.page_title_length /\ a.page_title_length <= 60 THEN 10 ELSE 0)
        + (IF a.has_viewport THEN 10 ELSE 0)
        + (IF a.has_socials >= 2 THEN 5 ELSE 0)
    IN IF score < 100 THEN score ELSE 100

\* Grades with D from 50 on.
score_to_grade_lenient(score) ==
    IF score >= 90 THEN "A"
    ELSE IF score >= 80 THEN "B"
    ELSE IF score >= 70 THEN "C"
    ELSE IF score >= 50 THEN "D"
    ELSE "F"

score_to_grade(score) ==
    IF score >= 90 THEN "A"
    ELSE IF score >= 80 THEN "B"
    ELSE IF score >= 70 THEN "C"
    ELSE IF score >= 60 THEN "D"
    ELSE "F"

\* The details audit_website reads off the fetched page.
WithDetails(a, page) ==
    [a EXCEPT !.has_email = page.email,
              !.has_phone = page.phone,
              !.has_meta_description = (page.meta_description > 0),
              !.meta_description_length = page.meta_description,
              !.has_viewport = page.viewport,
              !.page_title_length = page.title,
              !.has_socials = page.socials]

\* score, grade and summary from the details.
WithAuditScore(a) ==
    [a EXCEPT !.score = calculate_audit_score(a),
              !.grade = score_to_grade(calculate_audit_score(a)),
              !.summary = <<"generated">>]

\* An except branch that leaves the score and the grade as they are.
AuditFailedKeepsScore(a) ==
    [a EXCEPT !.summary = <<"Audit failed: ", "exc">>]

\* The except branch of audit_website.
AuditFailed(a) ==
    [a EXCEPT !.summary = <<"Audit failed: ", "exc">>, !.score = 0, !.grade = "F"]

\* audit_website(url): the audit object is made, has_ssl is read off the
\* scheme, the client is opened and the GET is sent.
audit_website ==
    /\ auditCall.pc = "called"
    /\ auditCall' = [auditCall EXCEPT
            !.pc = "fetch",
            !.result = [NewAudit EXCEPT !.has_ssl = auditCall.page.https]]
    /\ UNCHANGED <<pipeVars, crawlCall, searchCall, scoreCall>>

\* The response has another status than 200.
FetchStatus(status) ==
    /\ auditCall.pc = "fetch"
    /\ status # 200
    /\ auditCall' = [auditCall EXCEPT
            !.pc = "returned",
            !.outcome = "status",
            !.result.summary = <<"Website returned status ", status>>]
    /\ UNCHANGED <<pipeVars, crawlCall, searchCall, scoreCall>>

\* client.get raised (timeout, no connection, bad url).
FetchRaises ==
    /\ auditCall.pc = "fetch"
    /\ auditCall' = [auditCall EXCEPT
            !.pc = "returned",
            !.outcome = "exception",
            !.result = AuditFailed(auditCall.result)]
    /\ UNCHANGED <<pipeVars, crawlCall, searchCall, scoreCall>>

\* Status 200: the page is parsed, scored and summed up.
PageAudited ==
    /\ auditCall.pc = "fetch"
    /\ auditCall' = [auditCall EXCEPT
            !.pc = "returned",
            !.outcome = "audited",
            !.result = WithAuditScore(WithDetails(auditCall.result, auditCall.page))]
    /\ UNCHANGED <<pipeVars, crawlCall, searchCall, scoreCall>>

\* Status 200 and a statement after the fetch raised: before any detail was
\* read (the parser), or after the score was assigned (the report).
ParseRaises(stage) ==
    /\ auditCall.pc = "fetch"
    /\ auditCall' = [auditCall EXCEPT
            !.pc = "returned",
            !.outcome = "exception",
            !.result = IF stage = "parser" THEN AuditFailed(auditCall.result)
                       ELSE AuditFailed(WithAuditScore(
                                WithDetails(auditCall.result, auditCall.page)))]
    /\ UNCHANGED <<pipeVars, crawlCall, searchCall, scoreCall>>

(* ----------------------------- specification ---------------------------- *)
\* No background work of a search request is under way.
Quiet == \A k \in JobIds : pc[k] \in {"idle", "done"}

\* The whole pipeline, one search request after the other: a request (or a
\* further run_enrichment) arrives when the background work of the earlier
\* ones is over, while audits, rescores and the passing of time interleave
\* freely with it.  No INSERT of _run_search can then meet a concurrent one,
\* and the steps after a refused INSERT belong to SpecDiscovery alone.
Next ==
    \/ \E j \in JobIds : create_search(j) /\ Quiet
    \/ \E j \in JobIds, ps \in PlaceLists : SearchPlacesReturns(j, ps)
    \/ \E j \in JobIds : SearchPlacesRaises(j)
    \/ \E j \in JobIds : SearchIter(j)
    \/ \E j \in JobIds : SearchCommit(j)
    \/ \E j \in JobIds : EnrichJobStart(j)
    \/ \E j \in JobIds, l \in LeadIds : TaskAcquire(j, l)
    \/ \E j \in JobIds, l \in LeadIds : TaskLoad(j, l)
    \/ \E j \in JobIds, l \in LeadIds : TaskCheck(j, l)
    \/ \E j \in JobIds, l \in LeadIds : TaskNoWebsite(j, l)
    \/ \E j \in JobIds, l \in LeadIds, crawl \in CrawlResults : TaskCrawled(j, l, crawl)
    \/ \E j \in JobIds, l \in LeadIds : TaskRaises(j, l)
    \/ \E j \in JobIds : EnrichJobFinish(j)
    \/ \E j \in JobIds : RunEnrichmentAgain(j) /\ Quiet
    \/ \E l \in LeadIds : AuditStart(l)
    \/ \E l \in LeadIds, score \in AuditScores : AuditFinish(l, score)
    \/ rescore_all_leads
    \/ WindowElapses

Spec == Init /\ [][Next]_vars

\* Discovery alone: search requests arrive at any time, so that their
\* _run_search tasks overlap; the candidate lists range over DiscPlaces.
NextDiscovery ==
    \/ \E j \in JobIds : create_search(j)
    \/ \E j \in JobIds, ps \in DiscPlaceLists : SearchPlacesReturns(j, ps)
    \/ \E j \in JobIds : SearchPlacesRaises(j)
    \/ \E j \in JobIds : SearchIter(j)
    \/ \E j \in JobIds : SearchCommit(j)
    \/ \E j \in JobIds : SearchFlushFails(j)
    \/ \E j \in JobIds : BackgroundContinue(j)
    \/ \E j \in JobIds : BackgroundAbort(j)

SpecDiscovery == Init /\ [][NextDiscovery]_vars

\* Job 1 has just committed its discovery of the candidate list ps
\* (_run_search returned, _run_enrichment is next).
InitPool(ps) ==
    /\ jobs = [j \in JobIds |->
                 IF j = 1 THEN [NewJob EXCEPT !.status = "complete",
                                              !.total_found = Len(ps)]
                 ELSE NewJob]
    /\ leads = [l \in DOMAIN ps |-> NewLead(l, 1, PlaceResult(ps[l]))]
    /\ nextLeadId = Len(ps) + 1
    /\ pc = [j \in JobIds |-> IF j = 1 THEN "enrich" ELSE "idle"]
    /\ places = [j \in JobIds |-> <<>>]
    /\ idx = [j \in JobIds |-> 0]
    /\ added = [j \in JobIds |-> <<>>]
    /\ flushed = [j \in JobIds |-> <<>>]
    /\ rows = [j \in JobIds |-> <<>>]
    /\ tpc = [j \in JobIds |-> <<>>]
    /\ tlead = [j \in JobIds |-> <<>>]
    /\ enriched = [j \in JobIds |-> 0]
    /\ runs = [j \in JobIds |-> 0]
    /\ auditSess = [l \in LeadIds \cup DOMAIN ps |-> NoSess]
    /\ rescored = NoRescore
    /\ CallsIdle

\* Enrichment alone, of a job with PoolLeads pending Leads.
InitEnrich == InitPool([i \in PoolIds |-> i])

NextEnrich ==
    \/ EnrichJobStart(1)
    \/ \E l \in PoolIds : TaskAcquire(1, l)
    \/ \E l \in PoolIds : TaskLoad(1, l)
    \/ \E l \in PoolIds : TaskCheck(1, l)
    \/ \E l \in PoolIds : TaskNoWebsite(1, l)
    \/ \E l \in PoolIds, crawl \in CrawlResults : TaskCrawled(1, l, crawl)
    \/ \E l \in PoolIds : TaskRaises(1, l)
    \/ EnrichJobFinish(1)
    \/ RunEnrichmentAgain(1)

SpecEnrich == InitEnrich /\ [][NextEnrich]_vars

\* The steps of a run of enrich_job: the event loop goes on running the
\* job's coroutines, the store answers, and every page fetch comes back
\* (with a result or with an exception), so a step of the run that stays
\* possible is taken.
EnrichRunStep ==
    \/ EnrichJobStart(1)
    \/ \E l \in PoolIds : TaskAcquire(1, l)
    \/ \E l \in PoolIds : TaskLoad(1, l)
    \/ \E l \in PoolIds : TaskCheck(1, l)
    \/ \E l \in PoolIds : TaskNoWebsite(1, l)
    \/ \E l \in PoolIds, crawl \in CrawlResults : TaskCrawled(1, l, crawl)
    \/ \E l \in PoolIds : TaskRaises(1, l)
    \/ EnrichJobFinish(1)

SpecEnrichLive == SpecEnrich /\ WF_vars(EnrichRunStep)

\* The life of the Leads of one job after their discovery: enrichment runs,
\* audits, rescoring and the passing of time, in any interleaving.  The job
\* found LeadPool places in a row, starting with one that has a website or
\* with one that has none.
InitLead ==
    \E first \in {1, 2} : InitPool([i \in LeadPoolIds |-> first + i - 1])

NextLead ==
    \/ EnrichJobStart(1)
    \/ \E l \in LeadPoolIds : TaskAcquire(1, l)
    \/ \E l \in LeadPoolIds : TaskLoad(1, l)
    \/ \E l \in LeadPoolIds : TaskCheck(1, l)
    \/ \E l \in LeadPoolIds : TaskNoWebsite(1, l)
    \/ \E l \in LeadPoolIds, crawl \in CrawlResults : TaskCrawled(1, l, crawl)
    \/ \E l \in LeadPoolIds : TaskRaises(1, l)
    \/ EnrichJobFinish(1)
    \/ RunEnrichmentAgain(1)
    \/ \E l \in LeadPoolIds : AuditStart(l)
    \/ \E l \in LeadPoolIds, score \in AuditScores : AuditFinish(l, score)
    \/ rescore_all_leads
    \/ WindowElapses

SpecLead == InitLead /\ [][NextLead]_vars

\* One call of crawl_website, for every course its fetches may take.
NextCrawl ==
    \/ crawl_website
    \/ HomepageFailed
    \/ \E outcome \in PageOutcomes, links \in 0..MaxLinks : HomepageScraped(outcome, links)
    \/ \E outcome \in PageOutcomes : HomepageRaises(outcome)
    \/ SubpageFetch
    \/ \E outcome \in PageOutcomes : SubpageScraped(outcome)
    \/ CrawlReturn

SpecCrawl == Init /\ [][NextCrawl]_vars

\* One call of _clean_emails, on any set of the addresses.
InitClean ==
    /\ InitPipeline
    /\ searchCall = NoCall
    /\ scoreCall = NoCall
    /\ auditCall = NoCall
    /\ crawlCall \in {[pc |-> "clean", raw_emails |-> raw, cleaned |-> {}] :
                         raw \in SUBSET RawEmails}

NextClean == CleanEmailsCall

SpecClean == InitClean /\ [][NextClean]_vars

\* One call of search_places, for every sequence of provider responses.
NextSearch ==
    \/ \E m \in 0..MaxWanted, drawn \in MockLow..MockHigh : SearchMock(m, drawn)
    \/ \E m \in 0..MaxWanted : search_places(m)
    \/ \E n \in 0..MaxPage, token \in BOOLEAN : PageOk(n, token)
    \/ \E status \in {429, 500} : PageError(status)
    \/ PostRaises

SpecSearch == Init /\ [][NextSearch]_vars

\* Every request sent is answered or fails.
SpecSearchLive == SpecSearch /\ WF_vars(NextSearch)

\* One call of score_lead on any Lead.
InitScore ==
    /\ InitPipeline
    /\ crawlCall = NoCall
    /\ searchCall = NoCall
    /\ auditCall = NoCall
    /\ scoreCall \in {[pc |-> "called", lead |-> lead, result |-> <<0, "unscored">>] :
                          lead \in ScoreInputs}

NextScore == ScoreLeadCall

SpecScore == InitScore /\ [][NextScore]_vars

\* One call of audit_website on any page.
InitAudit ==
    /\ InitPipeline
    /\ crawlCall = NoCall
    /\ searchCall = NoCall
    /\ scoreCall = NoCall
    /\ auditCall \in {[pc |-> "called", page |-> page, outcome |-> "none",
                       result |-> NewAudit] : page \in AuditPages}

NextAudit ==
    \/ audit_website
    \/ \E status \in {404, 500} : FetchStatus(status)
    \/ FetchRaises
    \/ PageAudited
    \/ \E stage \in {"parser", "report"} : ParseRaises(stage)

SpecAudit == InitAudit /\ [][NextAudit]_vars

TypeOK ==
    /\ \A j \in JobIds : jobs[j].status \in {"none", "running", "complete", "failed"}
    /\ \A l \in DOMAIN leads :
          /\ leads[l].enrichment_status \in {"pending", "crawling", "enriched", "failed"}
          /\ leads[l].lead_tier \in {"unscored", "cold", "warm", "hot"}
    /\ nextLeadId \in Nat

(* ================================ claims ================================ *)

\* C1: after any interleaving of discovery runs (repeated, for different
\* jobs, or overlapping and returning the same place) no two stored Leads
\* share a google_place_id.
C1_UniquePlaceId ==
    \A a \in DOMAIN leads : \A b \in DOMAIN leads :
        a # b => leads[a].google_place_id # leads[b].google_place_id

\* Two overlapping discoveries added the same place: one committed its Lead,
\* the INSERT of the other was rejected.
C1_Witness ==
    \E j \in JobIds : \E k \in JobIds :
        /\ j # k
        /\ jobs[j].status = "complete" /\ jobs[j].total_found > 0
        /\ pc[k] = "escaped"
        /\ \E l \in DOMAIN leads : leads[l].search_job_id = j

\* C2: during a run of enrich_job at most 3 Leads of the job are inside
\* enrich_lead at any moment, however many Leads are pending.
C2_AtMostThreeInside ==
    \A j \in JobIds : Cardinality(Inside(j)) <= 3

\* Three tasks hold the slots and a fourth is kept waiting.
C2_Witness ==
    /\ Cardinality(Inside(1)) = 3
    /\ \E l \in DOMAIN tpc[1] : tpc[1][l] = "wait"
    /\ \E l \in Inside(1) : tpc[1][l] = "crawling"

\* C3: whichever Leads of a job with n pending Leads fail (crawl error, or
\* an exception inside enrich_lead), every other Lead is enriched when the
\* run ends, and the run ends with status complete and enriched_count = n.
C3_FailuresIsolated ==
    [][\A j \in JobIds :
          (pc[j] = "gather" /\ pc'[j] = "done") =>
              /\ jobs'[j].status = "complete"
              /\ jobs'[j].enriched_count = Len(rows[j])
              /\ \A i \in DOMAIN rows[j] :
                    \/ tpc[j][rows[j][i]] = "raised"
                    \/ leads'[rows[j][i]].enrichment_status = "failed"
                    \/ leads'[rows[j][i]].enrichment_status = "enriched"]_vars

\* The first run over the whole pool is over: one crawl failed, one task
\* raised in mid-crawl, the other Leads are enriched, and all are counted.
C3_Witness ==
    /\ pc[1] = "done" /\ runs[1] = 1
    /\ jobs[1].status = "complete"
    /\ jobs[1].enriched_count = PoolLeads
    /\ \E a \in DOMAIN leads : \E b \in DOMAIN leads :
          /\ leads[a].enrichment_status = "failed"
          /\ leads[b].enrichment_status = "crawling"
          /\ \A l \in DOMAIN leads \ {a, b} : leads[l].enrichment_status = "enriched"

C5_EnrichedNeverPending ==
    [][\A l \in DOMAIN leads :
          leads[l].enrichment_status = "enriched" =>
              /\ l \in DOMAIN leads'
              /\ leads'[l].enrichment_status # "pending"]_vars

\* An enriched Lead of job 1 after a second search returned its place, a
\* second run of enrich_job, an audit and a rescore.
C5_Witness ==
    \E l \in DOMAIN leads :
        /\ leads[l].enrichment_status = "enriched"
        /\ leads[l].search_job_id = 1
        /\ runs[1] = 2
        /\ pc[2] = "done" /\ jobs[2].status = "complete"
        /\ \A m \in DOMAIN leads : leads[m].search_job_id = 1
        /\ leads[l].website_audit_score # NoScore
        /\ rescored.calls = 1

\* C6: once a SearchJob's status is complete or failed, no later step of
\* the pipeline changes it.
C6_TerminalStatusKept ==
    [][\A j \in JobIds :
          jobs[j].status \in {"complete", "failed"} =>
              jobs'[j].status = jobs[j].status]_vars

\* C7: a job whose discovery raised is failed, with its error_message,
\* when all the background work create_search scheduled for it is over.
C7_FailedStaysFailed ==
    \A j \in JobIds :
        (pc[j] = "done" /\ jobs[j].error_message # "") => jobs[j].status = "failed"

\* C8: a further run of enrich_job on a job whose earlier run has finished
\* changes no Lead, and ends with the status and enriched_count the earlier
\* run ended with.
C8_RerunIdempotent ==
    [][(runs[1] = 2 /\ pc[1] = "gather") =>
          /\ leads' = leads
          /\ pc'[1] = "done" =>
                /\ jobs'[1].status = "complete"
                /\ jobs'[1].enriched_count = jobs[1].enriched_count]_vars

\* C9: whenever a commit changes a field of a Lead that score_lead reads,
\* the Lead's stored lead_score and lead_tier equal score_lead of its
\* stored fields.
C9_ScoreFollowsFields ==
    [][\A l \in DOMAIN leads :
          (\E f \in {"has_website", "website", "website_audit_score", "emails",
                     "phone", "google_rating", "google_reviews_count",
                     "socials", "website_platform"} :
                leads'[l][f] # leads[l][f]) =>
              /\ leads'[l].lead_score = score_lead(leads'[l])[1]
              /\ leads'[l].lead_tier = score_lead(leads'[l])[2]]_vars

\* C10: of two calls of rescore_all_leads with no operation in between,
\* the second changes no Lead's lead_score or lead_tier and reports 0
\* updated.
C10_RescoreTwice ==
    rescored.calls = 2 => (rescored.updated = 0 /\ ~rescored.changed)

\* Two calls in a row, the first of which scored a Lead that enrichment had
\* not reached yet.
C10_Witness ==
    /\ rescored.calls = 2
    /\ \E l \in DOMAIN leads :
          /\ leads[l].enrichment_status = "pending"
          /\ leads[l].lead_score # 0
          /\ leads[l].lead_score = score_lead(leads[l])[1]

C12_NoneLeftBehind ==
    [][\A j \in JobIds :
          (pc[j] = "gather" /\ pc'[j] = "done") =>
              \A i \in DOMAIN rows[j] :
                  leads'[rows[j][i]].enrichment_status \in {"enriched", "failed"}]_vars

\* C13: the enrichment of a job starts only when its discovery is over: the
\* first selection of enrich_job takes every Lead the discovery inserted for
\* the job, and no Lead is inserted for the job afterwards.
C13_EnrichmentAfterDiscovery ==
    [][\A j \in JobIds :
          /\ pc[j] \in {"search", "loop", "escaped"} => pc'[j] # "gather"
          /\ (pc[j] = "enrich" /\ pc'[j] = "gather" /\ runs[j] = 0) =>
                Range(rows'[j]) = {l \in DOMAIN leads : leads[l].search_job_id = j}
          /\ pc[j] \in {"enrich", "gather", "done"} =>
                {l \in DOMAIN leads' : leads'[l].search_job_id = j}
                    = {l \in DOMAIN leads : leads[l].search_job_id = j}]_vars

\* The first enrichment run of a job is under way on the Leads its
\* discovery committed.
C13_Witness ==
    \E j \in JobIds :
        /\ pc[j] = "gather" /\ runs[j] = 1
        /\ jobs[j].total_found > 0
        /\ Len(rows[j]) = jobs[j].total_found
        /\ \E l \in DOMAIN tpc[j] : tpc[j][l] # "wait"

\* C14: within one crawl_website call the homepage fetch is over before a
\* subpage fetch starts; when the homepage cannot be fetched the result
\* carries an error and no subpage is fetched.
C14_HomepageFirst ==
    crawlCall.pc # "idle" =>
        /\ crawlCall.fetches[1].page = "home"
        /\ \A i \in 2..Len(crawlCall.fetches) :
              /\ crawlCall.fetches[i].page = "contact"
              /\ crawlCall.fetches[1].outcome \in {"plain", "email", "social"}
        /\ crawlCall.fetches[1].outcome = "failed" =>
              /\ crawlCall.pc = "returned"
              /\ crawlCall.result.error # ""
              /\ Len(crawlCall.fetches) = 1

\* A crawl that fetched the homepage and then all three contact pages, and
\* returned what it collected.
C14_Witness ==
    /\ crawlCall.pc = "returned"
    /\ Len(crawlCall.fetches) = 1 + MaxContactPages
    /\ crawlCall.result.error = ""
    /\ crawlCall.result.emails = {InfoMail, OwnerMail}

\* C15: when the provider answers a page request with a status other than
\* 200, search_places asks for no further page and returns, without
\* raising, the candidates of the earlier pages.
C15_ProviderErrorKeepsPages ==
    [][(searchCall.pc = "request" /\ searchCall'.status \notin {0, 200}) =>
          /\ searchCall'.pc = "returned"
          /\ searchCall'.returned = searchCall.results
          /\ searchCall'.requests = searchCall.requests]_vars

\* The second page request was answered with an error, and the places of
\* the first page were returned.
C15_Witness ==
    /\ searchCall.pc = "returned"
    /\ searchCall.status = 500
    /\ searchCall.requests = 2
    /\ Len(searchCall.returned) = MaxPage

\* C16: search_places ends for every sequence of provider responses and
\* returns at most max_results candidates; a page is requested only while
\* fewer than max_results candidates are accumulated and the page before
\* it carried a token and was not empty.
C16_SearchTerminates ==
    /\ [](/\ searchCall.pc = "returned" =>
                Len(searchCall.returned) <= searchCall.max_results
          /\ searchCall.pc = "request" =>
                /\ Len(searchCall.results) < searchCall.max_results
                /\ searchCall.requests > 1 =>
                      /\ searchCall.page_token
                      /\ searchCall.results # <<>>
                      /\ searchCall.results[Len(searchCall.results)].page
                            = searchCall.requests - 1)
    /\ (searchCall.pc = "request" ~> searchCall.pc \in {"returned", "raised"})

\* Three pages were needed; the last one brought more than was asked for and
\* the list was cut to max_results.
C16_Witness ==
    /\ searchCall.pc = "returned"
    /\ searchCall.requests = 3
    /\ Len(searchCall.results) > searchCall.max_results
    /\ Len(searchCall.returned) = searchCall.max_results

\* C17: for every combination of signals score_lead returns the sum of the
\* rubric weights (no website 25; else audit score under 60: 20, under 75:
\* 10; an e-mail 10; a phone 5; rating at least 4.0: 5; at least 50 reviews:
\* 5; at least two of facebook, instagram, linkedin, twitter: 5; a platform
\* of the upgrade list 15) and the tier of the thresholds 60, 35, 15.
C17_ScoreIsRubricSum ==
    scoreCall.pc = "returned" =>
        LET lead == scoreCall.lead
            sum ==
                (IF ~lead.has_website \/ lead.website = NoUrl THEN 25
                 ELSE IF lead.website_audit_score = NoScore THEN 0
                 ELSE IF lead.website_audit_score < 60 THEN 20
                 ELSE IF lead.website_audit_score < 75 THEN 10
                 ELSE 0)
                + (IF Cardinality(lead.emails) >= 1 THEN 10 ELSE 0)
                + (IF lead.phone # "" THEN 5 ELSE 0)
                + (IF lead.google_rating >= 40 THEN 5 ELSE 0)
                + (IF lead.google_reviews_count >= 50 THEN 5 ELSE 0)
                + (IF Cardinality(lead.socials \cap
                        {"facebook", "instagram", "linkedin", "twitter"}) >= 2
                   THEN 5 ELSE 0)
                + (IF lead.website_platform \in {"wix", "Wix"} THEN 15 ELSE 0)
        IN /\ scoreCall.result[1] = sum
           /\ scoreCall.result[2] =
                 IF sum >= 60 THEN "hot"
                 ELSE IF sum >= 35 THEN "warm"
                 ELSE IF sum >= 15 THEN "cold"
                 ELSE "unscored"

\* The example of the rubric: no website, two e-mails, a phone, rating 4.2,
\* 80 reviews and two socials give 55 and warm.
C17_Witness ==
    /\ scoreCall.pc = "returned"
    /\ ~scoreCall.lead.has_website /\ scoreCall.lead.website = NoUrl
    /\ Cardinality(scoreCall.lead.emails) = 2
    /\ scoreCall.lead.phone # ""
    /\ scoreCall.lead.google_rating = 42
    /\ scoreCall.lead.google_reviews_count = 80
    /\ scoreCall.lead.socials = {"facebook", "instagram"}
    /\ scoreCall.lead.website_platform = ""
    /\ scoreCall.result = <<55, "warm">>

\* C18: for a page fetched with success the score of audit_website is the
\* rubric sum (SSL 25, e-mail 20, phone 15, meta description 10 and 5 more
\* for a length of 120..160, title of 30..60 characters 10, viewport 10, two
\* social platforms or more 5) capped at 100, and the grade is A from 90, B
\* from 80, C from 70, D from 60, else F; a page with HTTPS and a phone and
\* without e-mail, meta description, viewport and second social link scores
\* at least 40 and gets F.
C18_AuditIsRubricSum ==
    (auditCall.pc = "returned" /\ auditCall.outcome = "audited") =>
        LET page == auditCall.page
            sum ==
                  (IF page.https THEN 25 ELSE 0)
                + (IF page.email THEN 20 ELSE 0)
                + (IF page.phone THEN 15 ELSE 0)
                + (IF page.meta_description > 0 THEN 10 ELSE 0)
                + (IF page.meta_description \in 120..160 THEN 5 ELSE 0)
                + (IF page.title \in 30..60 THEN 10 ELSE 0)
                + (IF page.viewport THEN 10 ELSE 0)
                + (IF page.socials >= 2 THEN 5 ELSE 0)
        IN /\ auditCall.result.score = (IF sum > 100 THEN 100 ELSE sum)
           /\ auditCall.result.grade =
                 (IF auditCall.result.score >= 90 THEN "A"
                  ELSE IF auditCall.result.score >= 80 THEN "B"
                  ELSE IF auditCall.result.score >= 70 THEN "C"
                  ELSE IF auditCall.result.score >= 60 THEN "D"
                  ELSE "F")
           /\ (/\ page.https /\ page.phone /\ ~page.email
               /\ page.meta_description = 0 /\ ~page.viewport /\ page.socials < 2) =>
                  (auditCall.result.score >= 40 /\ auditCall.result.grade = "F")

\* The page of the example, with a title of good length: 50 points, grade F.
C18_Witness ==
    /\ auditCall.pc = "returned" /\ auditCall.outcome = "audited"
    /\ auditCall.page.https /\ auditCall.page.phone /\ ~auditCall.page.email
    /\ auditCall.page.meta_description = 0 /\ ~auditCall.page.viewport
    /\ auditCall.page.socials = 1
    /\ auditCall.page.title = 30
    /\ auditCall.result.score = 50
    /\ auditCall.result.grade = "F"

\* C19: audit_website does not raise: after a failure of the fetch or of the
\* parsing (an exception, a timeout, a status other than 200) it returns
\* score 0, grade F and a summary that tells the error.
C19_AuditFailureIsZeroF ==
    /\ auditCall.pc \in {"called", "fetch", "returned"}
    /\ auditCall.pc = "returned" <=> auditCall.outcome # "none"
    /\ auditCall.outcome \in {"status", "exception"} =>
          /\ auditCall.result.score = 0
          /\ auditCall.result.grade = "F"
          /\ auditCall.result.summary # <<>>
          /\ auditCall.result.summary[1] \in {"Website returned status ", "Audit failed: "}

\* A page worth 100 points whose report raised after the score was assigned:
\* the result says score 0 and F.
C19_Witness ==
    /\ auditCall.pc = "returned" /\ auditCall.outcome = "exception"
    /\ calculate_audit_score(WithDetails([NewAudit EXCEPT !.has_ssl = auditCall.page.https],
                                         auditCall.page)) = 100
    /\ auditCall.result.has_email
    /\ auditCall.result.score = 0 /\ auditCall.result.grade = "F"

\* C20: when _run_search comes to a candidate whose place id a stored Lead
\* carries, the step leaves every stored Lead as it is (owning job, statuses,
\* enrichment data, score), adds no Lead for the candidate, and the commit of
\* the search changes no stored Lead and stores no Lead under a place id
\* that was stored before.
C20_ExistingLeadUntouched ==
    [][\A j \in JobIds :
         /\ (/\ pc[j] = "loop"
             /\ idx[j] < Len(places[j])
             /\ idx'[j] = idx[j] + 1
             /\ \E i \in DOMAIN leads :
                   leads[i].google_place_id = PlaceResult(places[j][idx[j] + 1]).place_id)
            => /\ leads' = leads
               /\ added'[j] = <<>>
               /\ \A i \in DOMAIN flushed'[j] :
                     flushed'[j][i].google_place_id
                        # PlaceResult(places[j][idx[j] + 1]).place_id
         /\ (pc[j] = "loop" /\ pc'[j] = "enrich")
            => /\ \A i \in DOMAIN leads : i \in DOMAIN leads' /\ leads'[i] = leads[i]
               /\ \A i \in DOMAIN leads' \ DOMAIN leads :
                     \A k \in DOMAIN leads :
                        leads[k].google_place_id # leads'[i].google_place_id
    ]_vars

\* The search of job 2 has just gone past a candidate that job 1 stored and
\* enriched: nothing is waiting to be inserted, the Lead is job 1's.
C20_Witness ==
    /\ pc[2] = "loop"
    /\ idx[2] >= 1
    /\ added[2] = <<>>
    /\ flushed[2] = <<>>
    /\ \E i \in DOMAIN leads :
          /\ leads[i].google_place_id = PlaceResult(places[2][idx[2]]).place_id
          /\ leads[i].search_job_id = 1
          /\ leads[i].enrichment_status = "enriched"
    /\ Cardinality(DOMAIN leads) = 1

C24_AtMostThreeSubpages ==
    crawlCall.pc # "idle" =>
        /\ Len(crawlCall.fetches) <= 4
        /\ Cardinality({i \in DOMAIN crawlCall.fetches :
                           crawlCall.fetches[i].page = "contact"}) <= 3

\* A homepage with more than three matching links: the crawl returned after
\* three contact pages.
C24_Witness ==
    /\ crawlCall.pc = "returned"
    /\ crawlCall.links > 3
    /\ Len(crawlCall.fetches) = 4
    /\ crawlCall.result.error = ""

\* C25: a crawl_website call in which the fetch of a contact page failed
\* (exception or status other than 200) fetches the remaining contact pages
\* and returns a result without error that holds what the homepage and the
\* other contact pages gave; enrich_lead marks the Lead enriched with it.
C25_SubpageFailureSkipped ==
    /\ \A i \in 2..(IF crawlCall.pc = "idle" THEN 0 ELSE Len(crawlCall.fetches)) :
          crawlCall.fetches[i].outcome = "failed" =>
              /\ crawlCall.result.error = ""
              /\ crawlCall.pc = "returned" =>
                    Len(crawlCall.fetches) = 1 + find_contact_pages(crawlCall.links)
    /\ (/\ crawlCall.pc = "returned"
        /\ \E i \in 2..Len(crawlCall.fetches) : crawlCall.fetches[i].outcome = "failed")
       => LET fetched == DOMAIN crawlCall.fetches
              r == crawlCall.result
          IN /\ r.error = ""
             /\ r.emails = clean_emails(UNION {EmailsOf(i, crawlCall.fetches[i].outcome) :
                                                  i \in fetched})
             /\ r.phones = clean_phones(UNION {PhonesOf(i, crawlCall.fetches[i].outcome) :
                                                  i \in fetched})
             /\ DOMAIN r.socials =
                   UNION {DOMAIN SocialsOf(i, crawlCall.fetches[i].outcome) : i \in fetched}
             /\ ApplyCrawl(NewLead(1, 1, PlaceResult(1)),
                           [error |-> r.error, status_code |-> r.status_code,
                            platform |-> r.platform, emails |-> r.emails,
                            phones |-> r.phones, socials |-> DOMAIN r.socials],
                           Fresh).enrichment_status = "enriched"

\* The first contact page failed, the second one gave addresses: they are
\* in the result next to the links of the homepage.
C25_Witness ==
    /\ crawlCall.pc = "returned"
    /\ Len(crawlCall.fetches) >= 3
    /\ crawlCall.fetches[1].outcome = "social"
    /\ crawlCall.fetches[2].outcome = "failed"
    /\ crawlCall.fetches[3].outcome = "email"
    /\ crawlCall.result.error = ""
    /\ crawlCall.result.emails = {InfoMail, OwnerMail}
    /\ DOMAIN crawlCall.result.socials = {"facebook", "instagram"}

\* C26: the e-mails and the phones of a crawl are those of all pages
\* fetched (homepage and contact pages) taken together, and for every social
\* platform the link kept is the one of the first page, in the order of the
\* fetches, that carries the platform: no later page replaces it.
C26_UnionAndFirstFound ==
    (crawlCall.pc # "idle" /\ crawlCall.result.error = "") =>
        LET fetched == DOMAIN crawlCall.fetches
            Out(i) == crawlCall.fetches[i].outcome
            Carriers(p) == {i \in fetched : p \in DOMAIN SocialsOf(i, Out(i))}
            First(p) == CHOOSE i \in Carriers(p) : \A k \in Carriers(p) : i <= k
        IN /\ crawlCall.all_emails = UNION {EmailsOf(i, Out(i)) : i \in fetched}
           /\ crawlCall.all_phones = UNION {PhonesOf(i, Out(i)) : i \in fetched}
           /\ DOMAIN crawlCall.all_socials = {p \in {"facebook", "instagram"} : Carriers(p) # {}}
           /\ \A p \in DOMAIN crawlCall.all_socials :
                 crawlCall.all_socials[p] = SocialsOf(First(p), Out(First(p)))[p]
           /\ crawlCall.pc = "returned" =>
                 /\ crawlCall.result.emails = clean_emails(crawlCall.all_emails)
                 /\ crawlCall.result.phones = clean_phones(crawlCall.all_phones)
                 /\ crawlCall.result.socials = crawlCall.all_socials

\* The homepage carries a Facebook link, both contact pages carry other
\* Facebook and Instagram links: Facebook is the homepage's, Instagram the
\* first contact page's, and the numbers of all pages are there.
C26_Witness ==
    /\ crawlCall.pc = "returned"
    /\ Len(crawlCall.fetches) = 3
    /\ crawlCall.fetches[1].outcome = "email"
    /\ crawlCall.fetches[2].outcome = "social"
    /\ crawlCall.fetches[3].outcome = "email"
    /\ crawlCall.result.socials["facebook"] = <<"facebook", 1>>
    /\ crawlCall.result.socials["instagram"] = <<"instagram", 2>>
    /\ crawlCall.result.phones = {"(555) 010-0001", "(555) 010-0002"}
    /\ crawlCall.result.emails = {InfoMail, OwnerMail}

\* C27, as stated: _clean_emails drops an address exactly when its domain
\* is on the denylist or its local part contains .png, .jpg, .gif, .svg,
\* .js or .css; the other addresses are returned lower-cased, each once.
C27_AssetLocalPartDropped ==
    crawlCall.pc = "cleaned" =>
        crawlCall.cleaned =
            {LowerEmail(e) : e \in {a \in crawlCall.raw_emails :
                ~(Lower(a.domain) \in JUNK_EMAIL_DOMAINS \/ HasAssetExt(a.local))}}

\* C27, amended: _clean_emails drops an address exactly when its domain (the
\* part after the @, lower-cased) is on the denylist or contains .png, .jpg,
\* .gif, .svg, .js or .css; the other addresses are returned lower-cased,
\* each once.
C27_AssetDomainDropped ==
    crawlCall.pc = "cleaned" =>
        /\ crawlCall.cleaned =
              {LowerEmail(e) : e \in {a \in crawlCall.raw_emails :
                  ~(Lower(a.domain) \in JUNK_EMAIL_DOMAINS \/ HasAssetExt(Lower(a.domain)))}}
        /\ \A e \in crawlCall.cleaned : LowerEmail(e) = e
        /\ ({InfoCaps, InfoMail} \subseteq crawlCall.raw_emails) =>
              Cardinality({e \in crawlCall.cleaned : e.local = "info"}) = 1

\* All addresses at once: the two spellings of info@site.com come back as
\* one, hook@Sentry.io and logo@2x.png are dropped, hero.jpg@site.com stays.
C27_Witness ==
    /\ crawlCall.pc = "cleaned"
    /\ crawlCall.raw_emails = RawEmails
    /\ crawlCall.cleaned = {InfoMail, OwnerMail, HeroMail}

\* C28: the score score_lead returns, which is the only value the pipeline
\* stores in lead_score besides the column default 0, is an integer from 0
\* to 100 for every combination of the Lead's signals, and so is the
\* lead_score of every stored Lead.
C28_ScoreInRange ==
    /\ scoreCall.pc = "returned" => scoreCall.result[1] \in 0..100
    /\ \A l \in DOMAIN leads : leads[l].lead_score \in 0..100

\* A Lead with every signal: no website, e-mail, phone, rating, reviews, two
\* socials and a site-builder platform on file, 70 points.
C28_Witness ==
    /\ scoreCall.pc = "returned"
    /\ scoreCall.result[1] = 70
    /\ ~scoreCall.lead.has_website
    /\ Lower(scoreCall.lead.website_platform) = "wix"

\* C29: the Leads of a discovery run are stored by the one commit that also
\* sets the job's total_found and status complete, all of them at once; a
\* run that fails before that commit stores none of its Leads.
C29_DiscoveryAllOrNothing ==
    [][\A j \in JobIds :
         LET Of(ls) == {l \in DOMAIN ls : ls[l].search_job_id = j}
         IN /\ Of(leads') # Of(leads) =>
                  /\ pc[j] = "loop" /\ pc'[j] = "enrich"
                  /\ jobs[j].status = "running"
                  /\ jobs'[j].status = "complete"
                  /\ jobs'[j].total_found = Len(places[j])
                  /\ Of(leads) = {}
                  /\ Of(leads') = DOMAIN flushed[j] \cup
                        (IF added[j] = <<>> THEN {} ELSE {nextLeadId})
            /\ (pc'[j] = "escaped" \/ jobs'[j].status \in {"running", "failed"}) =>
                  Of(leads') = {}
            /\ (jobs[j].status = "running" /\ jobs'[j].status = "complete") =>
                  \A l \in DOMAIN flushed[j] : l \in Of(leads')
    ]_vars

\* The run of one job stored two Leads with its commit; the run of the other
\* job had INSERTed a Lead when a later INSERT was refused, and none of its
\* Leads is stored.
C29_Witness ==
    \E j \in JobIds : \E k \in JobIds :
        /\ pc[k] = "escaped"
        /\ jobs[k].status = "running"
        /\ jobs[j].status = "complete"
        /\ \A l \in DOMAIN leads : leads[l].search_job_id = j
        /\ Cardinality(DOMAIN leads) = 2
        /\ nextLeadId = 5

\* C30: once trigger_website_audit has stored an audit on a Lead,
\* get_audit_results answers for that Lead with the stored score, whatever
\* the audit gave, a failed audit with score 0 included.
C30_AuditReadBack ==
    \A l \in DOMAIN leads :
        (leads[l].audit_status = "complete" /\ leads[l].website_audit_score # NoScore) =>
            /\ get_audit_results(leads[l]).status = 200
            /\ get_audit_results(leads[l]).score = leads[l].website_audit_score

====
